---- MODULE Spec2Model ----
(***************************************************************************)
(* ZipLink (src/app.py): a URL shortener over a Firestore collection       *)
(* 'links'.  Each HTTP handler is a sequence of local computation and      *)
(* single-document store operations (get / set / update / delete); the     *)
(* store operations are the atomic steps, so a handler that does more than *)
(* one of them is split at the second one and other requests may run in    *)
(* between.  A request first arrives (Receive), which puts its fields in    *)
(* the handler's locals; the handler's steps follow.                        *)
(*                                                                         *)
(* Python strings that the code inspects character by character (codes,    *)
(* aliases) are sequences of one-character strings.  A JSON field that is  *)
(* missing (None) and one that is the empty string are both falsy and the  *)
(* code only ever tests their truthiness, so both are the empty value.     *)
(***************************************************************************)
EXTENDS Integers, Sequences, FiniteSets, TLC

VARIABLES
    links,  \* the Firestore collection 'links': short_code -> document
    now,    \* the wall clock, as minutes since the epoch (UTC)
    pc,     \* per request slot: where its handler stands
    loc,    \* per request slot: the handler's local variables
    out,    \* the HTTP response most recently sent
    hits    \* history: per document, the successful resolutions since it was written

vars == <<links, now, pc, loc, out, hits>>

-----------------------------------------------------------------------------
(* Bounds of the model *)

MaxNow == 1       \* the clock runs 0..MaxNow
MaxClicks == 2    \* no more than MaxClicks increments are admitted per document

AllProcs == {1, 2}    \* request slots (requests in flight at once)

-----------------------------------------------------------------------------
(* Characters and strings *)

ascii_lowercase ==
    <<"a","b","c","d","e","f","g","h","i","j","k","l","m",
      "n","o","p","q","r","s","t","u","v","w","x","y","z">>

ascii_uppercase ==
    <<"A","B","C","D","E","F","G","H","I","J","K","L","M",
      "N","O","P","Q","R","S","T","U","V","W","X","Y","Z">>

digits == <<"0","1","2","3","4","5","6","7","8","9">>

Range(s) == {s[i] : i \in 1..Len(s)}

IndexOf(s, ch) == CHOOSE i \in 1..Len(s) : s[i] = ch

UpperSet == Range(ascii_uppercase)

\* str.lower() on one character, and on a string
lower_char(ch) ==
    IF ch \in UpperSet
    THEN ascii_lowercase[IndexOf(ascii_uppercase, ch)]
    ELSE ch

lower(s) == [i \in 1..Len(s) |-> lower_char(s[i])]

\* truthiness of a Python str / None: of a field held as a string, and of one
\* held as a sequence of characters
Truthy(s) == s # ""

TruthySeq(s) == Len(s) > 0

\* re.match(r'^[a-z0-9_-]+$', s): one or more characters of the class; '$'
\* also matches just before a single trailing newline
AliasClass == Range(ascii_lowercase) \cup Range(digits) \cup {"_", "-"}

AliasBody(s) ==
    IF Len(s) > 0 /\ s[Len(s)] = "\n" THEN SubSeq(s, 1, Len(s) - 1) ELSE s

re_match_alias(s) ==
    /\ Len(AliasBody(s)) > 0
    /\ \A i \in 1..Len(AliasBody(s)) : AliasBody(s)[i] \in AliasClass

MinAliasLen == 3

BASE_URL == "http://localhost:5000"

RESERVED_ALIASES ==
    { <<"a","p","p">>,
      <<"s","h","o","r","t","e","n">>,
      <<"l","o","g","i","n">>,
      <<"s","i","g","n","u","p">>,
      <<"a","u","t","h">>,
      <<"a","d","m","i","n">>,
      <<"d","a","s","h","b","o","a","r","d">>,
      <<"s","t","a","t","i","c">>,
      <<"a","p","i">>,
      <<"h","e","l","p">>,
      <<"v","e","r","i","f","y","_","p","a","s","s","w","o","r","d">> }

-----------------------------------------------------------------------------
(* Random codes *)

CodeLen == 6

characters == Range(ascii_lowercase) \cup Range(ascii_uppercase) \cup Range(digits)

\* the generator draws any CodeLen characters of ascii_letters + digits; an
\* environment lets it draw among the strings of that shape in `samples`
generate_random_code(samples) ==
    {c \in samples : Len(c) = CodeLen /\ \A i \in 1..Len(c) : c[i] \in characters}

\* mutant: the availability read always answers "free"
is_short_code_available_always(code) == TRUE

is_short_code_available(code) == code \notin DOMAIN links

-----------------------------------------------------------------------------
(* Passwords: werkzeug.security *)

Salts == {"salt1"}

NoHash == <<>>    \* password_hash = None

\* a salted one-way hash: the salt travels with the digest of (salt, password)
generate_password_hash(password, salt) == <<salt, <<salt, password>>>>

\* mutant: any password is accepted once a hash is stored
check_password_hash_any(pwhash, password) == pwhash[1] \in Salts

\* recomputes the digest with the stored salt and compares
check_password_hash(pwhash, password) ==
    generate_password_hash(password, pwhash[1]) = pwhash

-----------------------------------------------------------------------------
(* Dates.  An expirationDate string is [fmt, wall]: fmt "naive" is an ISO     *)
(* string without UTC offset, "offset" one with an explicit +00:00, "garbage" *)
(* no ISO string, "" a missing field; wall is the wall-clock reading in       *)
(* minutes.  Firestore stores and returns instants.                           *)

ISTOffset == 330    \* Asia/Kolkata is UTC+05:30

NoDate == [fmt |-> "", wall |-> 0]

TruthyDate(s) == s.fmt # ""

\* datetime.fromisoformat: ValueError on a string that is no ISO date; a naive
\* datetime for a string without offset, an aware one (here UTC) otherwise
fromisoformat(s) ==
    IF s.fmt = "naive" THEN [ok |-> TRUE, wall |-> s.wall, aware |-> FALSE, utcoffset |-> 0]
    ELSE IF s.fmt = "offset" THEN [ok |-> TRUE, wall |-> s.wall, aware |-> TRUE, utcoffset |-> 0]
    ELSE [ok |-> FALSE, wall |-> 0, aware |-> FALSE, utcoffset |-> 0]

\* pytz localize: ValueError("Not naive datetime") when tzinfo is already set
IST_localize(dt) ==
    IF dt.aware THEN [ok |-> FALSE, wall |-> 0, aware |-> FALSE, utcoffset |-> 0]
    ELSE [ok |-> TRUE, wall |-> dt.wall, aware |-> TRUE, utcoffset |-> ISTOffset]

\* the instant an aware datetime denotes
Instant(dt) == dt.wall - dt.utcoffset

\* mutant: a string that does not parse is taken as the instant 0
parse_expiration_lenient(s) ==
    LET dt == fromisoformat(s)
        lz == IST_localize(dt)
    IN  IF dt.ok /\ lz.ok THEN [ok |-> TRUE, at |-> Instant(lz)]
        ELSE [ok |-> TRUE, at |-> 0]

\* lines 92-99: [ok, at]; ok = FALSE is the ValueError branch
parse_expiration(s) ==
    LET dt == fromisoformat(s)
        lz == IST_localize(dt)
    IN  IF dt.ok /\ lz.ok THEN [ok |-> TRUE, at |-> Instant(lz)]
        ELSE [ok |-> FALSE, at |-> 0]

\* mutant: a link expires at its expiry instant, not after it
is_expired_at(data, t) == "expires_at" \in DOMAIN data /\ t >= data.expires_at

\* datetime.now(IST) > expiration_time, both aware: compared as instants
is_expired(data, t) == "expires_at" \in DOMAIN data /\ t > data.expires_at

-----------------------------------------------------------------------------
(* Firestore documents *)

\* mutant: every document is marked protected
make_link_data_protected(long_url, short_code, user_id, link_password, password_hash, expiration, t) ==
    LET base == [ long_url      |-> long_url,
                  short_code    |-> short_code,
                  user_id       |-> user_id,
                  clicks        |-> 0,
                  created_at    |-> t,
                  password_hash |-> password_hash,
                  is_protected  |-> TRUE ]
    IN  IF expiration.ok THEN ("expires_at" :> expiration.at) @@ base ELSE base

\* lines 102-114
make_link_data(long_url, short_code, user_id, link_password, password_hash, expiration, t) ==
    LET base == [ long_url      |-> long_url,
                  short_code    |-> short_code,
                  user_id       |-> user_id,
                  clicks        |-> 0,
                  created_at    |-> t,
                  password_hash |-> password_hash,
                  is_protected  |-> Truthy(link_password) ]
    IN  IF expiration.ok THEN ("expires_at" :> expiration.at) @@ base ELSE base

\* doc_ref.set(data): creates or overwrites the document
doc_set(col, id, data) ==
    [k \in DOMAIN col \cup {id} |-> IF k = id THEN data ELSE col[k]]

\* firestore.Increment(1): the server adds to the stored value
Increment(n) == n + 1

\* mutant: read-modify-write, the handler adds one to the value it read
clicks_update_rmw(stored, read) == read + 1

\* the value an update of 'clicks' leaves in the document, given the value
\* stored and the value the handler read earlier: the transform is applied by
\* the server to the stored value
clicks_update(stored, read) == Increment(stored)

\* doc_ref.update({'clicks': firestore.Increment(1)}) on an existing document,
\* by a handler whose copy of the document says `read` clicks
doc_update_clicks(col, id, read) == [col EXCEPT ![id].clicks = clicks_update(@, read)]

\* mutant: delete() of a document that is not there raises NotFound
delete_raises_if_absent(col, id) == id \notin DOMAIN col

\* doc_ref.delete() carries no precondition: it raises for no document, be it
\* there or not
delete_raises(col, id) == FALSE

\* mutant: the delete takes every document with it
doc_delete_all(col, id) == [k \in {} |-> col[k]]

\* doc_ref.delete()
doc_delete(col, id) == [k \in DOMAIN col \ {id} |-> col[k]]

-----------------------------------------------------------------------------
(* Requests and responses *)

promo == <<"p","r","o","m","o">>

abc123 == <<"a","b","c","1","2","3">>

Static == <<"S","t","a","t","i","c">>

xyz789 == <<"x","y","z","7","8","9">>

\* A naive ISO string that IST.localize turns into the instant 0
DateAtZero == [fmt |-> "naive", wall |-> ISTOffset]

\* An environment: the request slots in use and the values clients send.
\* One request at a time; every kind of alias, password and date.
EnvSeq ==
    [ procs     |-> {1},
      urls      |-> {"https://a.example", "https://b.example"},
      aliases   |-> { <<>>,                              \* no customAlias
                      <<"P","r","o","m","o">>,           \* valid, stored as promo
                      <<"A","B","C","1","2","3">>,       \* valid, a code the generator draws
                      <<"a","d">>,                       \* too short
                      <<"A","p","p">>,                   \* reserved once lower-cased
                      <<"a","!","b">> },                 \* outside the character class
      passwords |-> {"", "secret"},
      submitted |-> {"", "secret", "guess"},
      users     |-> {"u1"},
      listers   |-> {"u1"},
      dates     |-> { NoDate, DateAtZero, [fmt |-> "garbage", wall |-> 0] },
      samples   |-> { abc123, <<"s","t","a","t","i","c">> },
      codes     |-> { promo, abc123, <<"A","p","p">>, <<>> } ]

\* Two requests at a time on the randomly generated codes.
EnvConc ==
    [ procs     |-> AllProcs,
      urls      |-> {"https://a.example", "https://b.example"},
      aliases   |-> { <<>> },
      passwords |-> {"", "secret"},
      submitted |-> {"secret", "guess"},
      users     |-> {"u1"},
      listers   |-> {"u1"},
      dates     |-> { NoDate },
      samples   |-> { abc123, <<"s","t","a","t","i","c">> },
      codes     |-> { abc123 } ]

\* One request at a time on generated codes, among them a mixed-case code
\* that lower-cases to a reserved word.
EnvMixedCase ==
    [ procs     |-> {1},
      urls      |-> {"https://a.example"},
      aliases   |-> { <<>> },
      passwords |-> {"", "secret"},
      submitted |-> {"secret", "guess"},
      users     |-> {"u1"},
      listers   |-> {"u1"},
      dates     |-> { NoDate, DateAtZero, [fmt |-> "offset", wall |-> 0] },
      samples   |-> { abc123, Static, <<"s","t","a","t","i","c">> },
      codes     |-> { abc123, Static } ]

\* One request at a time by three clients: two users and one that sends no
\* userId; a third user only lists.
EnvUsers ==
    [ procs     |-> {1},
      urls      |-> {"https://a.example"},
      aliases   |-> { <<>>, promo, <<"x","y","z">> },
      passwords |-> {"", "secret"},
      submitted |-> {"secret"},
      users     |-> {"", "u1", "u2"},
      listers   |-> {"u1", "u2", "u3"},
      dates     |-> { NoDate },
      samples   |-> { abc123, <<"s","t","a","t","i","c">> },
      codes     |-> { abc123 } ]

\* One request at a time, among them creates without longUrl and creates with
\* an expirationDate that is no date, with and without a custom alias.
EnvInvalid ==
    [ procs     |-> {1},
      urls      |-> {"", "https://a.example"},
      aliases   |-> { <<>>, <<"P","r","o","m","o">> },
      passwords |-> {"", "secret"},
      submitted |-> {"secret"},
      users     |-> {"u1"},
      listers   |-> {"u1"},
      dates     |-> { NoDate, DateAtZero, [fmt |-> "garbage", wall |-> 0] },
      samples   |-> { abc123, <<"s","t","a","t","i","c">> },
      codes     |-> { promo, abc123 } ]

\* Two requests at a time on two generated codes, one of which is resolved,
\* verified and deleted.
EnvDelete ==
    [ procs     |-> AllProcs,
      urls      |-> {"https://a.example"},
      aliases   |-> { <<>> },
      passwords |-> {"", "secret"},
      submitted |-> {"secret"},
      users     |-> {"u1"},
      listers   |-> {"u1"},
      dates     |-> { NoDate },
      samples   |-> { abc123, xyz789 },
      codes     |-> { abc123 } ]

\* A handler's local variables: the fields of the request (json is whether
\* the body is JSON at all; short_code is the path parameter or the shortCode
\* field) and what the handler keeps between its store operations (the code it
\* settled on, the long_url and clicks of the document it read)
NoLoc ==
    [ json |-> FALSE, short_code |-> <<>>, long_url |-> "", clicks |-> 0,
      custom_alias |-> <<>>, link_password |-> "", user_id |-> "",
      expiration_date_str |-> NoDate, password |-> "" ]

\* The bodies of POST /shorten: no JSON at all, no longUrl, and every
\* combination of the environment's values
ShortenRequests(env) ==
    {NoLoc, [NoLoc EXCEPT !.json = TRUE]} \cup
    { [NoLoc EXCEPT !.json = TRUE, !.long_url = u, !.custom_alias = a,
                    !.link_password = w, !.user_id = i, !.expiration_date_str = d] :
        u \in env.urls, a \in env.aliases, w \in env.passwords,
        i \in env.users, d \in env.dates }

\* The bodies of POST /verify_password
VerifyRequests(env) ==
    {NoLoc} \cup
    { [NoLoc EXCEPT !.json = TRUE, !.short_code = c, !.password = w] :
        c \in env.codes, w \in env.submitted }

\* The paths of GET /<short_code> and DELETE /api/link/<short_code>
PathRequests(env) ==
    { [NoLoc EXCEPT !.short_code = c] : c \in env.codes \ {<<>>} }

\* The paths of GET /api/links/<user_id>
ListRequests(env) ==
    { [NoLoc EXCEPT !.user_id = u] : u \in env.listers }

NoResponse ==
    [ op |-> "", status |-> 0, error |-> "", shortUrl |-> <<>>, isProtected |-> FALSE,
      success |-> FALSE, longUrl |-> "", page |-> <<>>, message |-> <<>>,
      links |-> <<>> ]

\* jsonify({"error": msg}), status
ErrorResponse(op, status, msg) == [NoResponse EXCEPT !.op = op, !.status = status, !.error = msg]

\* the short URL f"{BASE_URL}/{short_code}"
short_url(short_code) == <<BASE_URL, "/">> \o short_code

\* the HTML pages: render_password_gateway returns the page text (with the code
\* substituted), render_expired_page returns a pair (page text, 410)
render_password_gateway(short_code) == [type |-> "str", text |-> <<"gateway">> \o short_code]

render_expired_page == [type |-> "tuple", text |-> <<"expired">>, second |-> 410]

\* Flask's conversion of a view's return value (rv, status): a str body becomes
\* a response with that status; a body that is itself a tuple is no valid
\* response (TypeError), which Flask answers with 500
make_response(op, rv, status) ==
    IF rv.type = "str"
    THEN [NoResponse EXCEPT !.op = op, !.status = status, !.page = rv.text]
    ELSE ErrorResponse(op, 500, "Internal Server Error")

\* a handler returns: the slot is free again and the response is sent
Reply(p, response) ==
    /\ pc' = [pc EXCEPT ![p] = "idle"]
    /\ loc' = [loc EXCEPT ![p] = NoLoc]
    /\ out' = response

\* a handler goes on to its next store operation
Goto(p, label, locals) ==
    /\ pc' = [pc EXCEPT ![p] = label]
    /\ loc' = [loc EXCEPT ![p] = locals]
    /\ out' = NoResponse

\* increments still to come on a document: requests between their read and
\* their update
InFlight(code) ==
    Cardinality({p \in AllProcs : pc[p] \in {"redirect_update", "verify_update"}
                                   /\ loc[p].short_code = code})

ClickBudget(code) == links[code].clicks + InFlight(code) < MaxClicks

-----------------------------------------------------------------------------
Init ==
    /\ links = <<>>
    /\ now = 0
    /\ pc = [p \in AllProcs |-> "idle"]
    /\ loc = [p \in AllProcs |-> NoLoc]
    /\ out = NoResponse
    /\ hits = <<>>

Tick ==
    /\ now < MaxNow
    /\ now' = now + 1
    /\ out' = NoResponse
    /\ UNCHANGED <<links, pc, loc, hits>>

\* a request arrives and Flask enters its handler
Receive(p, handler, request) ==
    /\ pc[p] = "idle"
    /\ Goto(p, handler, request)
    /\ UNCHANGED <<links, now, hits>>

-----------------------------------------------------------------------------
(* POST /shorten *)

\* mutant: a drawn code is not tested against the reserved words
generate_step_no_reserved(p, samples, locals) ==
    \E code \in generate_random_code(samples) :
        IF is_short_code_available(code)
        THEN Goto(p, "set", [locals EXCEPT !.short_code = code])
        ELSE Goto(p, "generate", locals)

\* lines 81-84, one iteration of the loop: draw a code, test it, leave the loop
\* or go round again
generate_step(p, samples, locals) ==
    \E code \in generate_random_code(samples) :
        IF code \notin RESERVED_ALIASES /\ is_short_code_available(code)
        THEN Goto(p, "set", [locals EXCEPT !.short_code = code])
        ELSE Goto(p, "generate", locals)

\* mutant: the reserved-word test is missing
alias_error_no_reserved(short_code) ==
    IF ~re_match_alias(short_code) THEN "charset"
    ELSE IF Len(short_code) < MinAliasLen THEN "too short"
    ELSE ""

\* lines 72-77: the error a lower-cased custom alias is refused with, "" if none
alias_error(short_code) ==
    IF ~re_match_alias(short_code) THEN "charset"
    ELSE IF short_code \in RESERVED_ALIASES THEN "reserved"
    ELSE IF Len(short_code) < MinAliasLen THEN "too short"
    ELSE ""

\* lines 52-84, up to and including the first read of the store
ShortenBegin(p, samples) ==
    /\ pc[p] = "shorten"
    /\ LET data == loc[p]
           short_code == lower(data.custom_alias)
       IN  IF ~data.json
           THEN Reply(p, ErrorResponse("shorten", 400, "Request body must be valid JSON"))
           ELSE IF ~Truthy(data.long_url)
           THEN Reply(p, ErrorResponse("shorten", 400, "longUrl is required"))
           ELSE IF TruthySeq(data.custom_alias)
           THEN IF alias_error(short_code) # ""
                THEN Reply(p, ErrorResponse("shorten", 400, alias_error(short_code)))
                ELSE IF ~is_short_code_available(short_code)
                THEN Reply(p, ErrorResponse("shorten", 409, "taken"))
                ELSE Goto(p, "set", [data EXCEPT !.short_code = short_code])
           ELSE generate_step(p, samples, data)
    /\ UNCHANGED <<links, now, hits>>

\* lines 81-84, a further iteration of the loop
ShortenRetry(p, samples) ==
    /\ pc[p] = "generate"
    /\ generate_step(p, samples, loc[p])
    /\ UNCHANGED <<links, now, hits>>

\* lines 86-123: hash, parse, build the document, write it, answer
ShortenSet(p) ==
    /\ pc[p] = "set"
    /\ \E salt \in Salts :
         LET l == loc[p]
             password_hash == IF Truthy(l.link_password)
                              THEN generate_password_hash(l.link_password, salt)
                              ELSE NoHash
             expiration_date_dt == IF TruthyDate(l.expiration_date_str)
                                   THEN parse_expiration(l.expiration_date_str)
                                   ELSE [ok |-> FALSE, at |-> 0]
             link_data == make_link_data(l.long_url, l.short_code, l.user_id,
                                         l.link_password, password_hash,
                                         expiration_date_dt, now)
         IN  IF TruthyDate(l.expiration_date_str) /\ ~expiration_date_dt.ok
             THEN /\ Reply(p, ErrorResponse("shorten", 400, "Invalid expiration date format."))
                  /\ UNCHANGED <<links, hits>>
             ELSE /\ links' = doc_set(links, l.short_code, link_data)
                  /\ hits' = doc_set(hits, l.short_code, 0)
                  /\ Reply(p, [NoResponse EXCEPT !.op = "shorten", !.status = 200,
                                                 !.shortUrl = short_url(l.short_code),
                                                 !.isProtected = Truthy(l.link_password)])
    /\ UNCHANGED now

-----------------------------------------------------------------------------
(* POST /verify_password *)

\* lines 133-147 and 155-158: up to the read of the document and the check; a
\* body that is no JSON makes data None and data.get raises
VerifyBegin(p) ==
    /\ pc[p] = "verify_password"
    /\ LET short_code == loc[p].short_code
           submitted_password == loc[p].password
       IN  IF ~loc[p].json
           THEN Reply(p, ErrorResponse("verify_password", 500, "Internal Server Error"))
           ELSE IF ~TruthySeq(short_code) \/ ~Truthy(submitted_password)
           THEN Reply(p, ErrorResponse("verify_password", 400, "Missing short code or password."))
           ELSE IF short_code \notin DOMAIN links
           THEN Reply(p, ErrorResponse("verify_password", 404, "Link not found."))
           ELSE LET link_data == links[short_code]
                    stored_hash == link_data.password_hash
                IN  IF /\ TruthySeq(stored_hash)
                       /\ check_password_hash(stored_hash, submitted_password)
                    THEN /\ ClickBudget(short_code)
                         /\ Goto(p, "verify_update",
                                 [loc[p] EXCEPT !.long_url = link_data.long_url,
                                                !.clicks = link_data.clicks])
                    ELSE Reply(p, ErrorResponse("verify_password", 401, "Invalid password."))
    /\ UNCHANGED <<links, now, hits>>

\* lines 149-154: the increment and the answer; update() of a document that is
\* gone raises NotFound, which nothing catches
VerifyUpdate(p) ==
    /\ pc[p] = "verify_update"
    /\ LET short_code == loc[p].short_code
       IN  IF short_code \in DOMAIN links
           THEN /\ links' = doc_update_clicks(links, short_code, loc[p].clicks)
                /\ hits' = [hits EXCEPT ![short_code] = @ + 1]
                /\ Reply(p, [NoResponse EXCEPT !.op = "verify_password", !.status = 200,
                                               !.success = TRUE,
                                               !.longUrl = loc[p].long_url])
           ELSE /\ Reply(p, ErrorResponse("verify_password", 500, "Internal Server Error"))
                /\ UNCHANGED <<links, hits>>
    /\ UNCHANGED now

-----------------------------------------------------------------------------
(* GET /<short_code> *)

\* lines 166-189: what the handler decides from the document it reads
redirect_decision(col, t, short_code) ==
    IF lower(short_code) \in RESERVED_ALIASES THEN "reserved"
    ELSE IF short_code \notin DOMAIN col THEN "absent"
    ELSE IF is_expired(col[short_code], t) THEN "expired"
    ELSE IF col[short_code].is_protected THEN "protected"
    ELSE "redirect"

RedirectBegin(p) ==
    /\ pc[p] = "redirect_to_long_url"
    /\ LET short_code == loc[p].short_code
           decision == redirect_decision(links, now, short_code)
       IN  CASE decision = "reserved" ->
                  Reply(p, ErrorResponse("redirect_to_long_url", 404, "Not Found"))
             [] decision = "absent" ->
                  Reply(p, ErrorResponse("redirect_to_long_url", 404, "Not Found"))
             [] decision = "expired" ->
                  Reply(p, make_response("redirect_to_long_url", render_expired_page, 410))
             [] decision = "protected" ->
                  Reply(p, make_response("redirect_to_long_url",
                                         render_password_gateway(short_code), 200))
             [] decision = "redirect" ->
                  /\ ClickBudget(short_code)
                  /\ Goto(p, "redirect_update",
                          [loc[p] EXCEPT !.long_url = links[short_code].long_url,
                                         !.clicks = links[short_code].clicks])
    /\ UNCHANGED <<links, now, hits>>

\* lines 192-194
RedirectUpdate(p) ==
    /\ pc[p] = "redirect_update"
    /\ LET short_code == loc[p].short_code
       IN  IF short_code \in DOMAIN links
           THEN /\ links' = doc_update_clicks(links, short_code, loc[p].clicks)
                /\ hits' = [hits EXCEPT ![short_code] = @ + 1]
                /\ Reply(p, [NoResponse EXCEPT !.op = "redirect_to_long_url", !.status = 302,
                                               !.longUrl = loc[p].long_url])
           ELSE /\ Reply(p, ErrorResponse("redirect_to_long_url", 500, "Internal Server Error"))
                /\ UNCHANGED <<links, hits>>
    /\ UNCHANGED now

-----------------------------------------------------------------------------
(* DELETE /api/link/<short_code> *)

\* lines 391-398: the delete and the answer; the handler answers 404 when the
\* delete raises NotFound
DeleteLink(p) ==
    /\ pc[p] = "delete_link"
    /\ LET short_code == loc[p].short_code
       IN  IF delete_raises(links, short_code)
           THEN /\ Reply(p, ErrorResponse("delete_link", 404, "Link not found."))
                /\ UNCHANGED <<links, hits>>
           ELSE /\ links' = doc_delete(links, short_code)
                /\ hits' = doc_delete(hits, short_code)
                /\ Reply(p, [NoResponse EXCEPT !.op = "delete_link", !.status = 200,
                                               !.message = short_code])
    /\ UNCHANGED now

-----------------------------------------------------------------------------
(* GET /api/links/<user_id> *)

IsoWidth == 2

\* datetime.isoformat() of a stored instant (Firestore returns every timestamp
\* in UTC): fixed-width decimal fields, the most significant first
isoformat(t) ==
    [i \in 1..IsoWidth |-> digits[((t \div (10 ^ (IsoWidth - i))) % 10) + 1]]

\* the order of Python's str on strings of digits: decided at the first
\* position where the two differ, a proper prefix coming first
str_lt(a, b) ==
    \E i \in 1..Len(b) :
        /\ \A j \in 1..(i - 1) : j <= Len(a) /\ a[j] = b[j]
        /\ \/ i > Len(a)
           \/ IndexOf(digits, a[i]) < IndexOf(digits, b[i])

\* mutant: the query has no filter
where_any_user(col, user_id) == DOMAIN col

\* lines 354-355: collection('links').where('user_id', '==', user_id)
where_user_id(col, user_id) == {id \in DOMAIN col : col[id].user_id = user_id}

\* the orders in which a query may stream the documents it matches
Orderings(S) ==
    {s \in [1..Cardinality(S) -> S] : \A i, j \in 1..Cardinality(S) : s[i] = s[j] => i = j}

\* lines 359-378: the entry of one document
link_entry(col, id) ==
    LET link_data == col[id]
    IN  [ id           |-> id,
          long_url     |-> link_data.long_url,
          short_code   |-> link_data.short_code,
          short_url    |-> short_url(link_data.short_code),
          clicks       |-> link_data.clicks,
          created_at   |-> isoformat(link_data.created_at),
          expires_at   |-> IF "expires_at" \in DOMAIN link_data
                           THEN isoformat(link_data.expires_at) ELSE <<>>,
          is_protected |-> link_data.is_protected ]

\* list.sort(key=created_at, reverse=True) is stable: an entry goes behind
\* every entry whose key is not smaller than its own
insert_sorted(s, x) ==
    LET k == Cardinality({i \in 1..Len(s) : ~str_lt(s[i].created_at, x.created_at)})
    IN  SubSeq(s, 1, k) \o <<x>> \o SubSeq(s, k + 1, Len(s))

RECURSIVE sort_created_at_desc(_)
sort_created_at_desc(s) ==
    IF Len(s) = 0 THEN <<>>
    ELSE insert_sorted(sort_created_at_desc(SubSeq(s, 1, Len(s) - 1)), s[Len(s)])

\* lines 353-382: one query, the entries in the order streamed, the sort, the
\* answer
GetUserLinks(p) ==
    /\ pc[p] = "get_user_links"
    /\ \E docs \in Orderings(where_user_id(links, loc[p].user_id)) :
         LET entries == [i \in 1..Len(docs) |-> link_entry(links, docs[i])]
         IN  Reply(p, [NoResponse EXCEPT !.op = "get_user_links", !.status = 200,
                                        !.links = sort_created_at_desc(entries)])
    /\ UNCHANGED <<links, now, hits>>

-----------------------------------------------------------------------------
NextOf(env) ==
    \/ Tick
    \/ \E p \in env.procs :
        \/ \E request \in ShortenRequests(env) : Receive(p, "shorten", request)
        \/ \E request \in VerifyRequests(env) : Receive(p, "verify_password", request)
        \/ \E request \in PathRequests(env) : Receive(p, "redirect_to_long_url", request)
        \/ \E request \in PathRequests(env) : Receive(p, "delete_link", request)
        \/ \E request \in ListRequests(env) : Receive(p, "get_user_links", request)
        \/ ShortenBegin(p, env.samples)
        \/ ShortenRetry(p, env.samples)
        \/ ShortenSet(p)
        \/ VerifyBegin(p)
        \/ VerifyUpdate(p)
        \/ RedirectBegin(p)
        \/ RedirectUpdate(p)
        \/ DeleteLink(p)
        \/ GetUserLinks(p)

Next == NextOf(EnvSeq)

Spec == Init /\ [][Next]_vars

NextConc == NextOf(EnvConc)

SpecConc == Init /\ [][NextConc]_vars

NextMixedCase == NextOf(EnvMixedCase)

SpecMixedCase == Init /\ [][NextMixedCase]_vars

NextUsers == NextOf(EnvUsers)

SpecUsers == Init /\ [][NextUsers]_vars

NextInvalid == NextOf(EnvInvalid)

SpecInvalid == Init /\ [][NextInvalid]_vars

NextDelete == NextOf(EnvDelete)

SpecDelete == Init /\ [][NextDelete]_vars

-----------------------------------------------------------------------------
(* Properties *)

\* slot p's handler takes its step out of `label`
Leaves(p, label) == pc[p] = label /\ pc'[p] # label

\* a POST /shorten body with a longUrl and a custom alias
WithAlias(data) == data.json /\ Truthy(data.long_url) /\ TruthySeq(data.custom_alias)

\* C1 (under Spec): round trip.  A request with a long URL and a custom alias
\* that, lower-cased, matches the character class, has at least 3 characters,
\* is not reserved and is not in the store passes the alias checks and goes on
\* to write under the lower-cased alias; when, without password and with no
\* expiry or one that is not yet past, it writes, it answers 200 with the
\* lower-cased code, the document holds the submitted long_url and resolves as
\* a redirect; and a redirect answers 302 with the long_url of the document of
\* its code.
C1_RoundTrip ==
    [][\A p \in EnvSeq.procs :
        /\ ( /\ Leaves(p, "shorten")
             /\ WithAlias(loc[p])
             /\ re_match_alias(lower(loc[p].custom_alias))
             /\ Len(lower(loc[p].custom_alias)) >= 3
             /\ lower(loc[p].custom_alias) \notin RESERVED_ALIASES
             /\ lower(loc[p].custom_alias) \notin DOMAIN links )
           => /\ pc'[p] = "set"
              /\ loc'[p] = [loc[p] EXCEPT !.short_code = lower(loc[p].custom_alias)]
        /\ ( /\ Leaves(p, "set")
             /\ TruthySeq(loc[p].custom_alias)
             /\ ~Truthy(loc[p].link_password)
             /\ \/ loc[p].expiration_date_str = NoDate
                \/ /\ loc[p].expiration_date_str.fmt = "naive"
                   /\ loc[p].expiration_date_str.wall - ISTOffset >= now )
           => /\ out'.status = 200
              /\ out'.shortUrl = short_url(loc[p].short_code)
              /\ loc[p].short_code \in DOMAIN links'
              /\ links'[loc[p].short_code].long_url = loc[p].long_url
              /\ redirect_decision(links', now', loc[p].short_code) = "redirect"
        /\ ( /\ Leaves(p, "redirect_to_long_url")
             /\ redirect_decision(links, now, loc[p].short_code) = "redirect" )
           => /\ pc'[p] = "redirect_update"
              /\ loc'[p].short_code = loc[p].short_code
        /\ Leaves(p, "redirect_update")
           => /\ out'.status = 302
              /\ out'.longUrl = links[loc[p].short_code].long_url
    ]_vars

\* a redirect of promo, created with an expiry, has just been answered with
\* the long_url stored for it
C1_Witness ==
    /\ out.op = "redirect_to_long_url" /\ out.status = 302
    /\ DOMAIN links = {promo}
    /\ links[promo].clicks = 1
    /\ out.longUrl = links[promo].long_url
    /\ "expires_at" \in DOMAIN links[promo]

\* C2 (under Spec): a request with a long URL and a custom alias whose
\* lower-cased form is a key of the store is answered 409 and leaves the store
\* as it was.
C2_Conflict ==
    [][\A p \in EnvSeq.procs :
        ( /\ Leaves(p, "shorten")
          /\ WithAlias(loc[p])
          /\ lower(loc[p].custom_alias) \in DOMAIN links )
        => /\ out'.op = "shorten" /\ out'.status = 409
           /\ links' = links
           /\ pc'[p] = "idle"
    ]_vars

\* an alias has just been refused as taken, the document it names being there,
\* protected and already resolved once
C2_Witness ==
    /\ out.op = "shorten" /\ out.status = 409
    /\ DOMAIN links = {promo}
    /\ links[promo].is_protected
    /\ links[promo].clicks = 1

\* C3 (under SpecConc): a create that answers 200 hands out a code that was not
\* in the store when it wrote it, so no two creates receive the same code and
\* each document holds its own request's long_url.
C3_FreshCode ==
    [][\A p \in EnvConc.procs :
        (Leaves(p, "set") /\ out'.status = 200) => loc[p].short_code \notin DOMAIN links
    ]_vars

\* the fields of a document that are written once
Fixed(d) ==
    [ long_url |-> d.long_url, user_id |-> d.user_id,
      password_hash |-> d.password_hash, is_protected |-> d.is_protected,
      expires_at |-> IF "expires_at" \in DOMAIN d THEN <<d.expires_at>> ELSE <<>> ]

\* C4 (under SpecConc): a document that is in the store before and after a
\* step keeps its long_url, user_id, password_hash, is_protected and
\* expires_at.
C4_WriteOnce ==
    [][\A c \in DOMAIN links \cap DOMAIN links' : Fixed(links'[c]) = Fixed(links[c])]_vars

\* C5 (under SpecConc): in every state, the clicks of each document equal the
\* number of requests on its code answered with a redirect (302) or a verify
\* success (200) since the document was written.
C5_NoLostClicks ==
    /\ DOMAIN hits = DOMAIN links
    /\ \A c \in DOMAIN links : links[c].clicks = hits[c]

\* two resolutions of one document overlapped (both had read it before either
\* updated it) and one of them has been counted
C5_Witness ==
    /\ abc123 \in DOMAIN links
    /\ links[abc123].clicks = 1
    /\ out.status = 302
    /\ \E p \in EnvConc.procs : pc[p] = "verify_update" /\ loc[p].clicks = 0

\* C6 (under SpecMixedCase): resolving a protected link that is not expired
\* answers with the password page (200) and leaves the store as it was; a step
\* that raises the clicks of a protected document is the update of a verify on
\* that code, raises them by exactly 1 and answers success with the stored
\* long_url; and no redirect (302) is answered for a protected document.
C6_PasswordGate ==
    [][\A p \in EnvMixedCase.procs :
        LET c == loc[p].short_code IN
        /\ ( /\ Leaves(p, "redirect_to_long_url")
             /\ c \in DOMAIN links
             /\ links[c].is_protected
             /\ ~("expires_at" \in DOMAIN links[c] /\ links[c].expires_at < now) )
           => /\ out'.status = 200
              /\ out'.page = <<"gateway">> \o c
              /\ links' = links
        /\ \A d \in DOMAIN links \cap DOMAIN links' :
             (links[d].is_protected /\ links'[d].clicks # links[d].clicks)
             => /\ \E q \in EnvMixedCase.procs :
                     Leaves(q, "verify_update") /\ loc[q].short_code = d
                /\ links'[d].clicks = links[d].clicks + 1
                /\ out'.success /\ out'.status = 200
                /\ out'.longUrl = links[d].long_url
        /\ ( /\ Leaves(p, "redirect_update")
             /\ c \in DOMAIN links )
           => ~links[c].is_protected
    ]_vars

\* C7 (under Spec): resolving a link whose expires_at is earlier than the
\* current time answers 410 and leaves the store as it was.
C7_Expired ==
    [][\A p \in EnvSeq.procs :
        LET c == loc[p].short_code IN
        ( /\ Leaves(p, "redirect_to_long_url")
          /\ c \in DOMAIN links
          /\ "expires_at" \in DOMAIN links[c]
          /\ links[c].expires_at < now )
        => /\ out'.status = 410
           /\ links' = links
    ]_vars

\* the password a stored hash was made from
PasswordOf(pwhash) == pwhash[2][2]

\* C8 (under Spec): a verify that names a code and a password answers 404 when
\* the code is not in the store, and 401 without success when the document has
\* no password_hash or its hash was made from another password; in both cases
\* the store is as it was.
C8_VerifyFailure ==
    [][\A p \in EnvSeq.procs :
        LET c == loc[p].short_code IN
        ( /\ Leaves(p, "verify_password")
          /\ loc[p].json /\ TruthySeq(c) /\ Truthy(loc[p].password) )
        => /\ c \notin DOMAIN links
              => out'.status = 404 /\ links' = links /\ pc'[p] = "idle"
           /\ ( /\ c \in DOMAIN links
                /\ \/ links[c].password_hash = NoHash
                   \/ PasswordOf(links[c].password_hash) # loc[p].password )
              => /\ out'.status = 401 /\ ~out'.success /\ out'.longUrl = ""
                 /\ links' = links /\ pc'[p] = "idle"
    ]_vars

\* a wrong password has just been refused for a protected document
C8_Witness ==
    /\ out.op = "verify_password" /\ out.status = 401
    /\ DOMAIN links = {promo}
    /\ links[promo].is_protected
    /\ links[promo].clicks = 0

\* C9 (under Spec): a request whose custom alias, lower-cased, does not match
\* the character class, is shorter than 3 characters or is a reserved word is
\* answered 400 and leaves the store as it was.
C9_AliasRules ==
    [][\A p \in EnvSeq.procs :
        LET a == lower(loc[p].custom_alias) IN
        ( /\ Leaves(p, "shorten")
          /\ loc[p].json /\ TruthySeq(loc[p].custom_alias)
          /\ \/ ~re_match_alias(a)
             \/ Len(a) < 3
             \/ a \in RESERVED_ALIASES )
        => /\ out'.op = "shorten" /\ out'.status = 400
           /\ links' = links
           /\ pc'[p] = "idle"
    ]_vars

\* a reserved alias has just been refused while the store holds a document
C9_Witness ==
    /\ out.op = "shorten" /\ out.status = 400 /\ out.error = "reserved"
    /\ DOMAIN links = {abc123}

\* C10 (under Spec): the retry loop can end in every state of the store: a
\* request in the loop always has a code to draw that is neither reserved nor
\* in the store.
C10_LoopEnds ==
    \A p \in EnvSeq.procs :
        pc[p] = "generate"
        => \E code \in generate_random_code(EnvSeq.samples) :
              code \notin RESERVED_ALIASES /\ code \notin DOMAIN links

\* C11 (under Spec): delete is idempotent.  A delete answers success (200)
\* whether or not the store holds a document of its code; afterwards the store
\* holds none; and a delete of a code that has no document, as the second of
\* two deletes of one code is, leaves the store as it was.
C11_DeleteIdempotent ==
    [][\A p \in EnvSeq.procs :
        LET c == loc[p].short_code IN
        Leaves(p, "delete_link")
        => /\ out'.op = "delete_link" /\ out'.status = 200
           /\ pc'[p] = "idle"
           /\ c \notin DOMAIN links'
           /\ c \notin DOMAIN links => links' = links
    ]_vars

\* the delete of a code that never had a document has just been answered with
\* success, the store still holding a document
C11_Witness ==
    /\ out.op = "delete_link" /\ out.status = 200
    /\ out.message = <<"A","p","p">>
    /\ abc123 \in DOMAIN links

\* C12 (under SpecUsers): the list of a user holds one entry for each document
\* of the store whose user_id is that user and no other entry, each entry with
\* the document's long_url and clicks; an entry never stands before one of a
\* document created later; when no document matches, the answer is the empty
\* list with status 200; and the store is left as it was.
C12_ListByUser ==
    [][\A p \in EnvUsers.procs :
        Leaves(p, "get_user_links")
        => LET L == out'.links
               mine == {c \in DOMAIN links : links[c].user_id = loc[p].user_id}
           IN  /\ out'.op = "get_user_links" /\ out'.status = 200
               /\ links' = links
               /\ {L[i].id : i \in 1..Len(L)} = mine
               /\ Len(L) = Cardinality(mine)
               /\ \A i \in 1..Len(L) :
                     /\ L[i].long_url = links[L[i].id].long_url
                     /\ L[i].clicks = links[L[i].id].clicks
               /\ \A i, j \in 1..Len(L) :
                     i < j => links[L[i].id].created_at >= links[L[j].id].created_at
               /\ mine = {} => L = <<>>
    ]_vars

\* a list of two documents created at different times has just been answered,
\* the later one first, while the store holds a document of another user
C12_Witness ==
    /\ out.op = "get_user_links" /\ out.status = 200
    /\ Len(out.links) = 2
    /\ Cardinality(DOMAIN links) = 3
    /\ links[out.links[1].id].created_at > links[out.links[2].id].created_at
    /\ \E c \in DOMAIN links : links[c].user_id = "u2"

\* C13 (under Spec): in every state, each document of the store is marked
\* is_protected exactly when it holds a password_hash.
C13_ProtectedIffHash ==
    \A c \in DOMAIN links : links[c].is_protected <=> Len(links[c].password_hash) > 0

\* the store holds a protected document with its hash and an unprotected one
\* without
C13_Witness ==
    /\ DOMAIN links = {promo, abc123}
    /\ links[promo].is_protected /\ links[promo].password_hash # NoHash
    /\ ~links[abc123].is_protected /\ links[abc123].password_hash = NoHash

\* C14 (under Spec): in every state, no key of the store, whether it came from
\* a custom alias or from the generator, is one of the reserved words.
C14_NoReservedKey ==
    DOMAIN links \cap RESERVED_ALIASES = {}

\* a create has drawn a reserved word, refused it and gone round the loop
\* again, the store holding a custom alias
C14_Witness ==
    /\ \E p \in EnvSeq.procs : pc[p] = "generate"
    /\ DOMAIN links = {promo}

\* C15 (under Spec): no count on an expired attempt.  A resolve or a verify
\* that reads a document whose expires_at is earlier than the current time
\* ends there: it does not go on to the increment, it leaves the store as it
\* was, and it does not answer with the long_url.
C15_NoExpiredCount ==
    [][\A p \in EnvSeq.procs :
        LET c == loc[p].short_code IN
        ( /\ Leaves(p, "redirect_to_long_url") \/ Leaves(p, "verify_password")
          /\ c \in DOMAIN links
          /\ "expires_at" \in DOMAIN links[c]
          /\ links[c].expires_at < now )
        => /\ pc'[p] = "idle"
           /\ links' = links
           /\ out'.longUrl = "" /\ ~out'.success /\ out'.status # 302
    ]_vars

\* C16 (under Spec): expiry goes before the password gate.  Resolving a
\* document that is both protected and expired answers with the expired page
\* (410) and not with the password page; and the password page is answered
\* only for a document that is protected and not expired.
C16_ExpiryFirst ==
    [][\A p \in EnvSeq.procs :
        LET c == loc[p].short_code IN
        ( /\ Leaves(p, "redirect_to_long_url")
          /\ c \in DOMAIN links )
        => /\ ( /\ links[c].is_protected
                /\ "expires_at" \in DOMAIN links[c]
                /\ links[c].expires_at < now )
              => /\ out'.status = 410
                 /\ out'.page = <<"expired">>
           /\ out'.page = <<"gateway">> \o c
              => /\ links[c].is_protected
                 /\ ~("expires_at" \in DOMAIN links[c] /\ links[c].expires_at < now)
    ]_vars

\* C17 (under SpecInvalid): a create without longUrl is answered 400 at its
\* first step; a create whose expirationDate is a string that is no date is
\* answered 400 at the step that would write, also when it carries a custom
\* alias that passed the alias checks; and in both cases, as at every first
\* step of a create, the store is left as it was.
C17_InvalidCreate ==
    [][\A p \in EnvInvalid.procs :
        /\ Leaves(p, "shorten") => links' = links
        /\ ( /\ Leaves(p, "shorten")
             /\ ~Truthy(loc[p].long_url) )
           => /\ out'.op = "shorten" /\ out'.status = 400
              /\ pc'[p] = "idle"
        /\ ( /\ Leaves(p, "set")
             /\ loc[p].expiration_date_str.fmt = "garbage" )
           => /\ out'.op = "shorten" /\ out'.status = 400
              /\ pc'[p] = "idle"
              /\ links' = links
    ]_vars

\* a create with the available alias promo has just been refused for its
\* expirationDate (the generator has no free code left, so the request carried
\* the alias), and the store holds no document of promo
C17_Witness ==
    /\ out.op = "shorten" /\ out.status = 400
    /\ out.error = "Invalid expiration date format."
    /\ DOMAIN links = {abc123}

\* C18 (under SpecMixedCase): every key of the store resolves.  A resolve of
\* a code that is a key of the store is not answered NotFound (404).
C18_KeysResolve ==
    [][\A p \in EnvMixedCase.procs :
        ( /\ Leaves(p, "redirect_to_long_url")
          /\ loc[p].short_code \in DOMAIN links )
        => out'.status # 404
    ]_vars

\* C19 (under SpecDelete): an increment creates no document.  A key enters the
\* store only by the write of a create on that code; the update of a resolve
\* or verify whose document has been deleted since it was read leaves the
\* store as it was, the document absent; a resolve, and a verify that names a
\* code and a password, of a code without document is answered 404 and leaves
\* the store as it was; and a delete leaves every document of another code as
\* it was.
C19_NoResurrection ==
    [][/\ \A c \in DOMAIN links' \ DOMAIN links :
             \E p \in EnvDelete.procs : Leaves(p, "set") /\ loc[p].short_code = c
       /\ \A p \in EnvDelete.procs :
             LET c == loc[p].short_code IN
             /\ ( /\ Leaves(p, "redirect_update") \/ Leaves(p, "verify_update")
                  /\ c \notin DOMAIN links )
                => /\ links' = links
                   /\ pc'[p] = "idle"
             /\ ( /\ Leaves(p, "redirect_to_long_url")
                  /\ c \notin DOMAIN links )
                => out'.status = 404 /\ links' = links /\ pc'[p] = "idle"
             /\ ( /\ Leaves(p, "verify_password")
                  /\ loc[p].json /\ TruthySeq(c) /\ Truthy(loc[p].password)
                  /\ c \notin DOMAIN links )
                => out'.status = 404 /\ links' = links /\ pc'[p] = "idle"
             /\ Leaves(p, "delete_link")
                => \A d \in DOMAIN links \ {c} :
                      d \in DOMAIN links' /\ links'[d] = links[d]
    ]_vars

\* a resolve of abc123 has just finished whose document was deleted between
\* its read and its increment: the document is absent, the other one is there
C19_Witness ==
    /\ out.op = "redirect_to_long_url" /\ out.status = 500
    /\ DOMAIN links = {xyz789}

====
